---- MODULE Spec2Model ----
(***************************************************************************)
(* The statement evaluator of the Mython interpreter                       *)
(* (src/mython/statement.h, src/mython/statement.cpp).                     *)
(*                                                                         *)
(* Every ast::Statement node has one operation, Execute(closure, context). *)
(* The model evaluates a node with the operator Exec, which dispatches to  *)
(* one operator per node class (ExecPrint, ExecAdd, ...), each translated  *)
(* from the Execute method of that class.  An evaluation either returns an *)
(* ObjectHolder (oc = "ok"), or leaves by a C++ exception:                 *)
(*    "rte"   a std::runtime_error with a message,                         *)
(*    "oor"   a std::out_of_range thrown by std::map::at,                  *)
(*    "ret"   the ObjectHolder thrown by Return::Execute,                  *)
(*    "abort" the process was killed by a trap (overflow with -ftrapv,     *)
(*            the division INT_MIN / -1).                                  *)
(* The runtime library (runtime.h: ObjectHolder, Class, ClassInstance,     *)
(* IsTrue, the comparators, the values' Print) is not part of the source   *)
(* at hand; it is modelled from the specification.                         *)
(***************************************************************************)
EXTENDS Integers, Sequences, FiniteSets

VARIABLES closure, fields, out, nalloc, build, runs, arg, last

vars == <<closure, fields, out, nalloc, build, runs, arg, last>>

(***************************************************************************)
(* Bounds of the model.                                                    *)
(***************************************************************************)
\* The number of root statements the embedder executes one after another.
MaxRuns == 2
\* The width of the machine integer (int) in bits, scaled down.
IntBits == 8

(***************************************************************************)
(* Values and handles (runtime::ObjectHolder).                             *)
(* A handle is a record: k the kind of the referent, n the number or the   *)
(* boolean (0/1), s the characters of a string, c a class name, a the      *)
(* address of the referent.  Objects that live inside an AST node (the     *)
(* literal of a ValueStatement, the ClassInstance member of a NewInstance, *)
(* a class descriptor) have the node's id as their address; objects made   *)
(* by ObjectHolder::Own have a fresh negative address.                     *)
(***************************************************************************)
NoneH == [k |-> "none", n |-> 0, s |-> <<>>, c |-> "", a |-> 0]

AbsentH == [k |-> "absent", n |-> 0, s |-> <<>>, c |-> "", a |-> 0]

NumH(n, a) == [k |-> "num", n |-> n, s |-> <<>>, c |-> "", a |-> a]

StrH(s, a) == [k |-> "str", n |-> 0, s |-> s, c |-> "", a |-> a]

BoolH(b, a) == [k |-> "bool", n |-> IF b THEN 1 ELSE 0, s |-> <<>>, c |-> "", a |-> a]

ClassH(c, a) == [k |-> "class", n |-> 0, s |-> <<>>, c |-> c, a |-> a]

InstH(c, a) == [k |-> "inst", n |-> 0, s |-> <<>>, c |-> c, a |-> a]

\* The names a closure (std::unordered_map<std::string, ObjectHolder>) may hold.
Names == {"x", "y", "n", "self", "v", "w", "p", "Box"}

EmptyClosure == [nm \in Names |-> AbsentH]

(***************************************************************************)
(* Machine integers: int, two's complement, IntBits wide.                  *)
(***************************************************************************)
IntMin == -(2 ^ (IntBits - 1))

IntMax == (2 ^ (IntBits - 1)) - 1

InRange(z) == IntMin <= z /\ z <= IntMax

\* What a wrapping machine instruction leaves of the exact result z.
Wrap(z) == ((z - IntMin) % (2 ^ IntBits)) + IntMin

Abs(z) == IF z < 0 THEN -z ELSE z

\* The quotient of C++'s operator/ on int: truncated toward zero.
TruncDiv(p, q) == IF (p < 0) = (q < 0) THEN Abs(p) \div Abs(q) ELSE -(Abs(p) \div Abs(q))

(***************************************************************************)
(* Characters.  A string is a sequence of one-character strings.           *)
(***************************************************************************)
Digits == <<"0", "1", "2", "3", "4", "5", "6", "7", "8", "9">>

RECURSIVE DecNat(_)
\* The decimal digits of a natural number, as operator<< writes an int.
DecNat(z) == IF z < 10 THEN <<Digits[z + 1]>> ELSE DecNat(z \div 10) \o <<Digits[(z % 10) + 1]>>

Dec(z) == IF z < 0 THEN <<"-">> \o DecNat(-z) ELSE DecNat(z)

NoneText == <<"N", "o", "n", "e">>

TrueText == <<"T", "r", "u", "e">>

FalseText == <<"F", "a", "l", "s", "e">>

ClassText == <<"C", "l", "a", "s", "s", " ">>

Alphabet == <<"\n", " ", "!", "-", "0", "1", "2", "3", "4", "5", "6", "7", "8", "9", "@", "B", "C", "F", "L", "N", "P", "R", "T", "a", "b", "c", "e", "i", "l", "n", "o", "r", "s", "u", "x", "z">>

CharRank(ch) == CHOOSE i \in 1..Len(Alphabet) : Alphabet[i] = ch

RECURSIVE StrLess(_, _)
\* std::string's operator<: lexicographic order.
StrLess(s1, s2) ==
    IF s2 = <<>> THEN FALSE
    ELSE IF s1 = <<>> THEN TRUE
    ELSE IF Head(s1) # Head(s2) THEN CharRank(Head(s1)) < CharRank(Head(s2))
    ELSE StrLess(Tail(s1), Tail(s2))

(***************************************************************************)
(* AST nodes.  Every node carries its class name t and an id that stands   *)
(* for the identity of the node object.                                    *)
(***************************************************************************)
Nil == [t |-> "nil", id |-> 0]

Num(id, n) == [t |-> "NumericConst", id |-> id, n |-> n]

Str(id, s) == [t |-> "StringConst", id |-> id, s |-> s]

Bool(id, b) == [t |-> "BoolConst", id |-> id, b |-> b]

NoneLit(id) == [t |-> "None", id |-> id]

\* VariableValue::VariableValue(std::vector<std::string> dotted_ids)
Var(id, ids) ==
    IF Len(ids) = 0 THEN [t |-> "VariableValue", id |-> id, var |-> "", dotted |-> <<>>]
    ELSE [t |-> "VariableValue", id |-> id, var |-> ids[1], dotted |-> [i \in 1..(Len(ids) - 1) |-> ids[i + 1]]]

Assign(id, var, rv) == [t |-> "Assignment", id |-> id, var |-> var, rv |-> rv]

FieldAssign(id, object, field, rv) == [t |-> "FieldAssignment", id |-> id, object |-> object, field |-> field, rv |-> rv]

MkPrint(id, args) == [t |-> "Print", id |-> id, args |-> args]

MethodCall(id, object, method, args) == [t |-> "MethodCall", id |-> id, object |-> object, method |-> method, args |-> args]

New(id, cls, args) == [t |-> "NewInstance", id |-> id, cls |-> cls, args |-> args]

Stringify(id, argument) == [t |-> "Stringify", id |-> id, argument |-> argument]

Not(id, argument) == [t |-> "Not", id |-> id, argument |-> argument]

Bin(t, id, lhs, rhs) == [t |-> t, id |-> id, lhs |-> lhs, rhs |-> rhs]

Cmp(id, cmp, lhs, rhs) == [t |-> "Comparison", id |-> id, cmp |-> cmp, lhs |-> lhs, rhs |-> rhs]

Compound(id, args) == [t |-> "Compound", id |-> id, args |-> args]

Return(id, statement) == [t |-> "Return", id |-> id, statement |-> statement]

ClassDef(id, cls) == [t |-> "ClassDefinition", id |-> id, cls |-> cls]

IfElse(id, condition, if_body, else_body) == [t |-> "IfElse", id |-> id, condition |-> condition, if_body |-> if_body, else_body |-> else_body]

MethodBody(id, body) == [t |-> "MethodBody", id |-> id, body |-> body]

BinaryKinds == {"Add", "Sub", "Mult", "Div", "Or", "And", "Comparison"}

(***************************************************************************)
(* The classes of the modelled programs (runtime::Class: a name, a parent, *)
(* a method table; a runtime::Method: a name, the formal parameters, a     *)
(* body).                                                                  *)
(*   class Box:                                                            *)
(*     def __init__(self, v): self.v = v                                   *)
(*     def get(self): return self.v                                        *)
(*     def side(self, p): print "!"; return p                              *)
(*     def deep(self): if True: (print "a"; return 1; print "b")           *)
(*                     print "c"                                           *)
(*     def outer(self): y = self.deep(); print y; return 2; print "z"      *)
(*     def __str__(self): return "Bx"                                      *)
(*     def __add__(self, p): return self.v + p                             *)
(*     def make(self): return Plain()                                      *)
(*   class Plain: (no methods)                                             *)
(***************************************************************************)
InitBody == MethodBody(101, Compound(102, <<FieldAssign(103, Var(104, <<"self">>), "v", Var(105, <<"v">>))>>))

GetBody == MethodBody(110, Compound(111, <<Return(112, Var(113, <<"self", "v">>))>>))

SideBody == MethodBody(120, Compound(121, <<MkPrint(122, <<Str(123, <<"!">>)>>), Return(124, Var(125, <<"p">>))>>))

DeepBody ==
    MethodBody(130, Compound(131, <<
        IfElse(132, Bool(133, TRUE),
               Compound(134, <<MkPrint(135, <<Str(136, <<"a">>)>>), Return(137, Num(138, 1)), MkPrint(139, <<Str(140, <<"b">>)>>)>>),
               Nil),
        MkPrint(141, <<Str(142, <<"c">>)>>)>>))

OuterBody ==
    MethodBody(150, Compound(151, <<
        Assign(152, "y", MethodCall(153, Var(154, <<"self">>), "deep", <<>>)),
        MkPrint(155, <<Var(156, <<"y">>)>>),
        Return(157, Num(158, 2)),
        MkPrint(159, <<Str(160, <<"z">>)>>)>>))

StrBody == MethodBody(170, Compound(171, <<Return(172, Str(173, <<"B", "x">>))>>))

MakeBody == MethodBody(190, Compound(191, <<Return(192, New(193, "Plain", <<>>))>>))

AddBody == MethodBody(180, Compound(181, <<Return(182, Bin("Add", 183, Var(184, <<"self", "v">>), Var(185, <<"p">>)))>>))

Method(name, params, body) == [name |-> name, params |-> params, body |-> body]

BoxClass ==
    [name |-> "Box", chars |-> <<"B", "o", "x">>, parent |-> "",
     methods |-> <<Method("__init__", <<"v">>, InitBody), Method("get", <<>>, GetBody),
                   Method("side", <<"p">>, SideBody), Method("deep", <<>>, DeepBody),
                   Method("outer", <<>>, OuterBody), Method("__str__", <<>>, StrBody),
                   Method("__add__", <<"p">>, AddBody), Method("make", <<>>, MakeBody)>>]

PlainClass == [name |-> "Plain", chars |-> <<"P", "l", "a", "i", "n">>, parent |-> "", methods |-> <<>>]

ClassOf(c) == IF c = "Box" THEN BoxClass ELSE PlainClass

NoMethod == Method("", <<>>, Nil)

\* The first method of the table with this name and this number of parameters.
FindMethod(methods, name, arity) ==
    IF \E i \in 1..Len(methods) : methods[i].name = name /\ Len(methods[i].params) = arity
    THEN methods[CHOOSE i \in 1..Len(methods) :
                    /\ methods[i].name = name /\ Len(methods[i].params) = arity
                    /\ \A j \in 1..(i - 1) : ~(methods[j].name = name /\ Len(methods[j].params) = arity)]
    ELSE NoMethod

RECURSIVE GetMethod(_, _, _)
\* The method of this class, or else of its ancestors.
InClass(cls, name, arity) ==
    IF FindMethod(cls.methods, name, arity).name # "" \/ cls.parent = "" THEN FindMethod(cls.methods, name, arity)
    ELSE GetMethod(cls.parent, name, arity)

\* Class::GetMethod
GetMethod(c, name, arity) == InClass(ClassOf(c), name, arity)

HasMethod(c, name, arity) == GetMethod(c, name, arity).name # ""

(***************************************************************************)
(* The state an evaluation works on, and its result.                       *)
(*   clo   the closure passed to Execute                                   *)
(*   flds  the field maps of the class instances, by address               *)
(*   out   the characters written to context.GetOutputStream()             *)
(*   na    the number of objects made by ObjectHolder::Own so far          *)
(*   ord   the order in which the build evaluates function arguments       *)
(*   ovf   what the build does on signed overflow: "wrap" or "trap"        *)
(*   log   the history of the run: an "exec" event when Execute of a node  *)
(*         is entered, a "done" event when it is left (with the outcome),  *)
(*         an "out" event for every write to the sink by a Print node, a   *)
(*         "hop" event for every attribute hop of a VariableValue          *)
(***************************************************************************)
Event(ev, id, t, oc, val, msg, s) == [ev |-> ev, id |-> id, t |-> t, oc |-> oc, val |-> val, msg |-> msg, s |-> s]

Logged(M, e) == [M EXCEPT !.log = Append(@, e)]

Ok(M, h) == [m |-> M, oc |-> "ok", val |-> h, msg |-> ""]

RuntimeError(M, msg) == [m |-> M, oc |-> "rte", val |-> NoneH, msg |-> msg]

OutOfRange(M) == [m |-> M, oc |-> "oor", val |-> NoneH, msg |-> "map::at"]

Abort(M) == [m |-> M, oc |-> "abort", val |-> NoneH, msg |-> ""]

\* ObjectHolder::Own: a new object on the heap.
OwnAddr(M) == -(M.na + 1)

Owned(M) == [M EXCEPT !.na = @ + 1]

Find(clo, nm) == IF nm \in Names THEN clo[nm] ELSE AbsentH

\* A write of the characters s to the output stream by the Print node id.
Emit(M, id, s) == [M EXCEPT !.out = @ \o s, !.log = Append(@, Event("out", id, "Print", "", NoneH, "", s))]

\* runtime::IsTrue
IsTrue(h) ==
    CASE h.k = "none" -> FALSE
      [] h.k = "bool" -> h.n = 1
      [] h.k = "num" -> h.n # 0
      [] h.k = "str" -> h.s # <<>>
      [] OTHER -> TRUE

RECURSIVE Exec(_, _)

(***************************************************************************)
(* The runtime library, as far as the evaluator uses it.                   *)
(***************************************************************************)
\* ClassInstance::Call: a new closure with self and the parameters, in which
\* the method's body is executed; the caller's closure is left as it was.
Bind(mth, inst, args) ==
    [nm \in Names |->
        IF nm = "self" THEN inst
        ELSE IF \E i \in 1..Len(mth.params) : mth.params[i] = nm
             THEN args[CHOOSE i \in 1..Len(mth.params) : mth.params[i] = nm]
        ELSE AbsentH]

\* The result of the method's body, with the caller's closure put back.
Returned(r, clo) == [r EXCEPT !.m.clo = clo]

CallMethod(mth, inst, args, M) ==
    IF mth.name = "" THEN RuntimeError(M, "Not implemented")
    ELSE Returned(Exec(mth.body, [M EXCEPT !.clo = Bind(mth, inst, args)]), M.clo)

Call(inst, method, args, M) == CallMethod(GetMethod(inst.c, method, Len(args)), inst, args, M)

RECURSIVE Render(_, _)
\* Object::Print(os, context) of the referent of h: the characters it writes
\* to os, as a String.
Render(h, M) ==
    CASE h.k = "num" -> Ok(M, StrH(Dec(h.n), 0))
      [] h.k = "str" -> Ok(M, StrH(h.s, 0))
      [] h.k = "bool" -> Ok(M, StrH(IF h.n = 1 THEN TrueText ELSE FalseText, 0))
      [] h.k = "class" -> Ok(M, StrH(ClassText \o ClassOf(h.c).chars, 0))
      [] h.k = "inst" ->
            IF HasMethod(h.c, "__str__", 0)
            THEN LET r == Call(h, "__str__", <<>>, M)
                 IN  IF r.oc # "ok" THEN r ELSE Render(r.val, r.m)
            ELSE Ok(M, StrH(<<"@">> \o Dec(h.a), 0))
      [] OTHER -> Ok(M, StrH(NoneText, 0))

\* The result of a comparison method, as a bool.
Truth(c) == IF c.oc # "ok" THEN c ELSE Ok(c.m, BoolH(IsTrue(c.val), 0))

\* runtime::Equal
Equal(l, r, M) ==
    CASE l.k = "num" /\ r.k = "num" -> Ok(M, BoolH(l.n = r.n, 0))
      [] l.k = "str" /\ r.k = "str" -> Ok(M, BoolH(l.s = r.s, 0))
      [] l.k = "bool" /\ r.k = "bool" -> Ok(M, BoolH(l.n = r.n, 0))
      [] l.k = "none" /\ r.k = "none" -> Ok(M, BoolH(TRUE, 0))
      [] l.k = "inst" /\ HasMethod(l.c, "__eq__", 1) -> Truth(Call(l, "__eq__", <<r>>, M))
      [] OTHER -> Ok(M, BoolH(FALSE, 0))

\* runtime::Less
Less(l, r, M) ==
    CASE l.k = "num" /\ r.k = "num" -> Ok(M, BoolH(l.n < r.n, 0))
      [] l.k = "str" /\ r.k = "str" -> Ok(M, BoolH(StrLess(l.s, r.s), 0))
      [] l.k = "bool" /\ r.k = "bool" -> Ok(M, BoolH(l.n < r.n, 0))
      [] l.k = "inst" /\ HasMethod(l.c, "__lt__", 1) -> Truth(Call(l, "__lt__", <<r>>, M))
      [] OTHER -> RuntimeError(M, "Cannot compare objects for less")

Negated(c) == IF c.oc # "ok" THEN c ELSE Ok(c.m, BoolH(c.val.n = 0, 0))

\* runtime::LessOrEqual: Less(l, r) || Equal(l, r), given s = Less(l, r).
OrEqual(s, l, r) == IF s.oc # "ok" \/ s.val.n = 1 THEN s ELSE Equal(l, r, s.m)

\* runtime::Greater: !Less(l, r) && !Equal(l, r), given s = Less(l, r).
AndNotEqual(s, l, r) == IF s.oc # "ok" \/ s.val.n = 1 THEN Negated(s) ELSE Negated(Equal(l, r, s.m))

\* The comparator of a Comparison node: runtime::Equal, NotEqual, Less,
\* Greater, LessOrEqual, GreaterOrEqual.
Compare(cmp, l, r, M) ==
    CASE cmp = "Equal" -> Equal(l, r, M)
      [] cmp = "NotEqual" -> Negated(Equal(l, r, M))
      [] cmp = "Less" -> Less(l, r, M)
      [] cmp = "GreaterOrEqual" -> Negated(Less(l, r, M))
      [] cmp = "Greater" -> AndNotEqual(Less(l, r, M), l, r)
      [] OTHER -> OrEqual(Less(l, r, M), l, r)

RECURSIVE EvalArgs(_, _, _, _)
\* The loops of MethodCall::Execute and NewInstance::Execute that evaluate the
\* actual arguments in order; an exception ends the loop.
EvalArgs(args, i, M, acc) ==
    IF i > Len(args) THEN [r |-> Ok(M, NoneH), vals |-> acc]
    ELSE LET r == Exec(args[i], M)
         IN  IF r.oc # "ok" THEN [r |-> r, vals |-> acc]
             ELSE EvalArgs(args, i + 1, r.m, Append(acc, r.val))

\* The result of an int operation whose exact value is z.  Signed overflow is
\* undefined: the build either wraps or traps.
IntResult(M, z) ==
    IF InRange(z) THEN Ok(Owned(M), NumH(z, OwnAddr(M)))
    ELSE IF M.ovf = "trap" THEN Abort(M)
    ELSE Ok(Owned(M), NumH(Wrap(z), OwnAddr(M)))

(***************************************************************************)
(* The Execute methods.                                                    *)
(***************************************************************************)
\* ValueStatement<T>::Execute
ExecValue(node, M) ==
    CASE node.t = "NumericConst" -> Ok(M, NumH(node.n, node.id))
      [] node.t = "StringConst" -> Ok(M, StrH(node.s, node.id))
      [] OTHER -> Ok(M, BoolH(node.b, node.id))

\* None::Execute
ExecNone(node, M) == Ok(M, NoneH)

ExecAssignment(node, M) ==
    LET r == Exec(node.rv, M)
    IN  IF r.oc # "ok" THEN r
        ELSE Ok([r.m EXCEPT !.clo[node.var] = r.val], r.val)

RECURSIVE Walk(_, _, _, _)
\* The loop over dotted_ids_ in VariableValue::Execute.
Walk(node, i, cur, M) ==
    IF i > Len(node.dotted) THEN Ok(M, cur)
    ELSE LET M1 == Logged(M, Event("hop", node.id, node.t, "", cur, "", <<>>))
         IN  IF cur.k = "inst"
             THEN LET f == Find(M.flds[cur.a], node.dotted[i])
                  IN  IF f.k = "absent" THEN OutOfRange(M1) ELSE Walk(node, i + 1, f, M1)
             ELSE Walk(node, i + 1, cur, M1)

ExecVariableValue(node, M) ==
    LET h == Find(M.clo, node.var)
    IN  IF h.k # "absent" THEN Walk(node, 1, h, M)
        ELSE RuntimeError(M, "Failed to VariableValue::Execute!")

RECURSIVE PrintLoop(_, _, _)
\* The loop over args_ in Print::Execute, from the i-th argument on.
PrintLoop(node, i, M) ==
    IF i > Len(node.args) THEN Ok(Emit(M, node.id, <<"\n">>), NoneH)
    ELSE LET M1 == IF i > 1 THEN Emit(M, node.id, <<" ">>) ELSE M
             r == Exec(node.args[i], M1)
             p == Render(r.val, r.m)
         IN  IF r.oc # "ok" THEN r
             ELSE IF r.val.k = "none" THEN PrintLoop(node, i + 1, Emit(r.m, node.id, NoneText))
             ELSE IF p.oc # "ok" THEN p
             ELSE PrintLoop(node, i + 1, Emit(p.m, node.id, p.val.s))

RECURSIVE PrintLoopLate(_, _, _)
\* A Print that evaluates an argument before it writes the separator.
PrintLoopLate(node, i, M) ==
    IF i > Len(node.args) THEN Ok(Emit(M, node.id, <<"\n">>), NoneH)
    ELSE LET r == Exec(node.args[i], M)
             M1 == IF i > 1 THEN Emit(r.m, node.id, <<" ">>) ELSE r.m
             p == Render(r.val, M1)
         IN  IF r.oc # "ok" THEN r
             ELSE IF r.val.k = "none" THEN PrintLoopLate(node, i + 1, Emit(M1, node.id, NoneText))
             ELSE IF p.oc # "ok" THEN p
             ELSE PrintLoopLate(node, i + 1, Emit(p.m, node.id, p.val.s))

ExecPrintLate(node, M) == PrintLoopLate(node, 1, M)

ExecPrint(node, M) == PrintLoop(node, 1, M)

ExecMethodCall(node, M) ==
    LET o == Exec(node.object, M)
        a == EvalArgs(node.args, 1, o.m, <<>>)
    IN  IF o.oc # "ok" THEN o
        ELSE IF o.val.k # "inst" THEN Ok(o.m, NoneH)
        ELSE IF a.r.oc # "ok" THEN a.r
        ELSE Call(o.val, node.method, a.vals, a.r.m)

\* Stringify::Execute with an empty text for the empty handle.
ExecStringifyEmptyNone(node, M) ==
    LET r == Exec(node.argument, M)
        p == Render(r.val, r.m)
    IN  IF r.oc # "ok" THEN r
        ELSE IF r.val.k = "none" THEN Ok(Owned(r.m), StrH(<<>>, OwnAddr(r.m)))
        ELSE IF p.oc # "ok" THEN p
        ELSE Ok(Owned(p.m), StrH(p.val.s, OwnAddr(p.m)))

ExecStringify(node, M) ==
    LET r == Exec(node.argument, M)
        p == Render(r.val, r.m)
    IN  IF r.oc # "ok" THEN r
        ELSE IF r.val.k = "none" THEN Ok(Owned(r.m), StrH(NoneText, OwnAddr(r.m)))
        ELSE IF p.oc # "ok" THEN p
        ELSE Ok(Owned(p.m), StrH(p.val.s, OwnAddr(p.m)))

\* Add::Execute without the dispatch to __add__.
ExecAddNoDispatch(node, M) ==
    LET l == Exec(node.lhs, M)
        r == Exec(node.rhs, l.m)
    IN  IF l.oc # "ok" THEN l
        ELSE IF r.oc # "ok" THEN r
        ELSE IF l.val.k = "str" /\ r.val.k = "str" THEN Ok(Owned(r.m), StrH(l.val.s \o r.val.s, OwnAddr(r.m)))
        ELSE IF l.val.k = "num" /\ r.val.k = "num" THEN IntResult(r.m, l.val.n + r.val.n)
        ELSE RuntimeError(r.m, "Failed to Add::Execute ")

ExecAdd(node, M) ==
    LET l == Exec(node.lhs, M)
        r == Exec(node.rhs, l.m)
    IN  IF l.oc # "ok" THEN l
        ELSE IF r.oc # "ok" THEN r
        ELSE IF l.val.k = "inst" /\ HasMethod(l.val.c, "__add__", 1) THEN Call(l.val, "__add__", <<r.val>>, r.m)
        ELSE IF l.val.k = "str" /\ r.val.k = "str" THEN Ok(Owned(r.m), StrH(l.val.s \o r.val.s, OwnAddr(r.m)))
        ELSE IF l.val.k = "num" /\ r.val.k = "num" THEN IntResult(r.m, l.val.n + r.val.n)
        ELSE RuntimeError(r.m, "Failed to Add::Execute ")

ExecSub(node, M) ==
    LET l == Exec(node.lhs, M)
        r == Exec(node.rhs, l.m)
    IN  IF l.oc # "ok" THEN l
        ELSE IF r.oc # "ok" THEN r
        ELSE IF l.val.k = "num" /\ r.val.k = "num" THEN IntResult(r.m, l.val.n - r.val.n)
        ELSE RuntimeError(r.m, "Failed to Sub::Execute ")

\* A Mult written as a copy of Add: it adds.
ExecMultAdds(node, M) ==
    LET l == Exec(node.lhs, M)
        r == Exec(node.rhs, l.m)
    IN  IF l.oc # "ok" THEN l
        ELSE IF r.oc # "ok" THEN r
        ELSE IF l.val.k = "num" /\ r.val.k = "num" THEN IntResult(r.m, l.val.n + r.val.n)
        ELSE RuntimeError(r.m, "Failed to Mult::Execute ")

ExecMult(node, M) ==
    LET l == Exec(node.lhs, M)
        r == Exec(node.rhs, l.m)
    IN  IF l.oc # "ok" THEN l
        ELSE IF r.oc # "ok" THEN r
        ELSE IF l.val.k = "num" /\ r.val.k = "num" THEN IntResult(r.m, l.val.n * r.val.n)
        ELSE RuntimeError(r.m, "Failed to Mult::Execute ")

ExecDiv(node, M) ==
    LET l == Exec(node.lhs, M)
        r == Exec(node.rhs, l.m)
    IN  IF l.oc # "ok" THEN l
        ELSE IF r.oc # "ok" THEN r
        ELSE IF l.val.k = "num" /\ r.val.k = "num"
             THEN IF r.val.n # 0 THEN IntResult(r.m, TruncDiv(l.val.n, r.val.n))
                  ELSE RuntimeError(r.m, "Cannot be divided by 0 ")
        ELSE RuntimeError(r.m, "Failed to Div::Execute ")

RECURSIVE CompoundLoop(_, _, _)
CompoundLoop(node, i, M) ==
    IF i > Len(node.args) THEN Ok(M, NoneH)
    ELSE LET r == Exec(node.args[i], M)
         IN  IF r.oc # "ok" THEN r ELSE CompoundLoop(node, i + 1, r.m)

ExecCompound(node, M) == CompoundLoop(node, 1, M)

\* Return::Execute: throw statement_->Execute(closure, context);
ExecReturn(node, M) ==
    LET r == Exec(node.statement, M)
    IN  IF r.oc # "ok" THEN r
        ELSE [m |-> r.m, oc |-> "ret", val |-> r.val, msg |-> ""]

ExecClassDefinition(node, M) == Ok([M EXCEPT !.clo[node.cls] = ClassH(node.cls, node.id)], NoneH)

ExecFieldAssignment(node, M) ==
    LET o == Exec(node.object, M)
        r == Exec(node.rv, o.m)
    IN  IF o.oc # "ok" THEN o
        ELSE IF o.val.k # "inst" THEN RuntimeError(o.m, "Failed to FieldAssignment::Execute ")
        ELSE IF r.oc # "ok" THEN r
        ELSE Ok([r.m EXCEPT !.flds[o.val.a][node.field] = r.val], r.val)

ExecIfElse(node, M) ==
    LET c == Exec(node.condition, M)
    IN  IF c.oc # "ok" THEN c
        ELSE IF IsTrue(c.val) THEN Exec(node.if_body, c.m)
        ELSE IF node.else_body.t # "nil" THEN Exec(node.else_body, c.m)
        ELSE Ok(c.m, NoneH)

\* An Or that evaluates both operands before it looks at either.
ExecOrBothOperands(node, M) ==
    LET l == Exec(node.lhs, M)
        r == Exec(node.rhs, l.m)
    IN  IF l.oc # "ok" THEN l
        ELSE IF r.oc # "ok" THEN r
        ELSE Ok(Owned(r.m), BoolH(IsTrue(l.val) \/ IsTrue(r.val), OwnAddr(r.m)))

ExecOr(node, M) ==
    LET l == Exec(node.lhs, M)
        r == Exec(node.rhs, l.m)
    IN  IF l.oc # "ok" THEN l
        ELSE IF IsTrue(l.val) THEN Ok(Owned(l.m), BoolH(TRUE, OwnAddr(l.m)))
        ELSE IF r.oc # "ok" THEN r
        ELSE IF IsTrue(r.val) THEN Ok(Owned(r.m), BoolH(TRUE, OwnAddr(r.m)))
        ELSE Ok(Owned(r.m), BoolH(FALSE, OwnAddr(r.m)))

ExecAnd(node, M) ==
    LET l == Exec(node.lhs, M)
        r == Exec(node.rhs, l.m)
    IN  IF l.oc # "ok" THEN l
        ELSE IF ~IsTrue(l.val) THEN Ok(Owned(l.m), BoolH(FALSE, OwnAddr(l.m)))
        ELSE IF r.oc # "ok" THEN r
        ELSE IF IsTrue(r.val) THEN Ok(Owned(r.m), BoolH(TRUE, OwnAddr(r.m)))
        ELSE Ok(Owned(r.m), BoolH(FALSE, OwnAddr(r.m)))

ExecNot(node, M) ==
    LET r == Exec(node.argument, M)
    IN  IF r.oc # "ok" THEN r
        ELSE Ok(Owned(r.m), BoolH(~IsTrue(r.val), OwnAddr(r.m)))

\* ObjectHolder::Own(runtime::Bool(c)) of the comparator's result c.
OwnBool(c) == IF c.oc # "ok" THEN c ELSE Ok(Owned(c.m), BoolH(c.val.n = 1, OwnAddr(c.m)))

\* The call of comparator_ once both operands are evaluated: f the operand
\* evaluated first, s the one evaluated second, lr whether f is the left one.
CmpApply(node, f, s, lr) ==
    IF s.oc # "ok" THEN s
    ELSE IF lr THEN OwnBool(Compare(node.cmp, f.val, s.val, s.m))
    ELSE OwnBool(Compare(node.cmp, s.val, f.val, s.m))

CmpSecond(node, second, f, lr) == IF f.oc # "ok" THEN f ELSE CmpApply(node, f, Exec(second, f.m), lr)

\* Comparison::Execute: both operands are arguments of one call of
\* comparator_, so the order of their evaluation is the build's choice.
ExecComparison(node, M) ==
    IF M.ord = "LR" THEN CmpSecond(node, node.rhs, Exec(node.lhs, M), TRUE)
    ELSE CmpSecond(node, node.lhs, Exec(node.rhs, M), FALSE)

\* NewInstance::Execute: the instance is the member class_instance_ of the
\* node, so its address is the node's.
ExecNewInstance(node, M) ==
    LET a == EvalArgs(node.args, 1, M, <<>>)
        c == Call(InstH(node.cls, node.id), "__init__", a.vals, a.r.m)
    IN  IF HasMethod(node.cls, "__init__", Len(node.args))
        THEN IF a.r.oc # "ok" THEN a.r
             ELSE IF c.oc # "ok" THEN c
             ELSE Ok(c.m, InstH(node.cls, node.id))
        ELSE Ok(M, InstH(node.cls, node.id))

\* A MethodBody that catches the Return and loses its value.
ExecMethodBodyDropsValue(node, M) ==
    LET r == Exec(node.body, M)
    IN  CASE r.oc = "ok" -> r
          [] r.oc = "ret" -> Ok(r.m, NoneH)
          [] r.oc = "abort" -> r
          [] OTHER -> RuntimeError(r.m, "MethodBody::Catched undefined object")

ExecMethodBody(node, M) ==
    LET r == Exec(node.body, M)
    IN  CASE r.oc = "ok" -> r
          [] r.oc = "ret" -> Ok(r.m, r.val)
          [] r.oc = "abort" -> r
          [] OTHER -> RuntimeError(r.m, "MethodBody::Catched undefined object")

\* The virtual call node->Execute(closure, context).
Dispatch(node, M) ==
    CASE node.t \in {"NumericConst", "StringConst", "BoolConst"} -> ExecValue(node, M)
      [] node.t = "None" -> ExecNone(node, M)
      [] node.t = "Assignment" -> ExecAssignment(node, M)
      [] node.t = "VariableValue" -> ExecVariableValue(node, M)
      [] node.t = "Print" -> ExecPrint(node, M)
      [] node.t = "MethodCall" -> ExecMethodCall(node, M)
      [] node.t = "Stringify" -> ExecStringify(node, M)
      [] node.t = "Add" -> ExecAdd(node, M)
      [] node.t = "Sub" -> ExecSub(node, M)
      [] node.t = "Mult" -> ExecMult(node, M)
      [] node.t = "Div" -> ExecDiv(node, M)
      [] node.t = "Compound" -> ExecCompound(node, M)
      [] node.t = "Return" -> ExecReturn(node, M)
      [] node.t = "ClassDefinition" -> ExecClassDefinition(node, M)
      [] node.t = "FieldAssignment" -> ExecFieldAssignment(node, M)
      [] node.t = "IfElse" -> ExecIfElse(node, M)
      [] node.t = "Or" -> ExecOr(node, M)
      [] node.t = "And" -> ExecAnd(node, M)
      [] node.t = "Not" -> ExecNot(node, M)
      [] node.t = "Comparison" -> ExecComparison(node, M)
      [] node.t = "NewInstance" -> ExecNewInstance(node, M)
      [] OTHER -> ExecMethodBody(node, M)

\* One call of Execute, with its entry and its exit recorded in the history.
Exec(node, M) ==
    LET r == Dispatch(node, Logged(M, Event("exec", node.id, node.t, "", NoneH, "", <<>>)))
    IN  [r EXCEPT !.m = Logged(@, Event("done", node.id, node.t, r.oc, r.val, r.msg, <<>>))]

(***************************************************************************)
(* The root statements the embedder executes, one per run, against the     *)
(* global closure.                                                         *)
(***************************************************************************)
Programs == <<
    \* 1: x = Box(3)
    Assign(201, "x", New(202, "Box", <<Num(203, 3)>>)),
    \* 2: y = x.make(); w = x.make(); y.v = 5; print w.v
    Compound(210, <<Assign(211, "y", MethodCall(212, Var(213, <<"x">>), "make", <<>>)),
                    Assign(214, "w", MethodCall(215, Var(216, <<"x">>), "make", <<>>)),
                    FieldAssign(217, Var(218, <<"y">>), "v", Num(219, 5)),
                    MkPrint(220, <<Var(221, <<"w", "v">>)>>)>>),
    \* 3: n = 5
    Assign(230, "n", Num(231, 5)),
    \* 4: n.v
    Var(240, <<"n", "v">>),
    \* 5: x.w
    Var(250, <<"x", "w">>),
    \* 6: p
    Var(260, <<"p">>),
    \* 7: return 1
    Return(270, Num(271, 1)),
    \* 8: a method body: if True: (print "a"; return 1; print "b")   print "c"
    MethodBody(280, Compound(281, <<
        IfElse(282, Bool(283, TRUE),
               Compound(284, <<MkPrint(285, <<Str(286, <<"a">>)>>), Return(287, Num(288, 1)), MkPrint(289, <<Str(290, <<"b">>)>>)>>),
               Nil),
        MkPrint(291, <<Str(292, <<"c">>)>>)>>)),
    \* 9: x.outer()
    MethodCall(300, Var(301, <<"x">>), "outer", <<>>),
    \* 10: a method body: print 1, (return 2)   print "z"
    MethodBody(310, Compound(311, <<MkPrint(312, <<Num(313, 1), Return(314, Num(315, 2))>>), MkPrint(316, <<Str(317, <<"z">>)>>)>>)),
    \* 11: a method body that is an assignment: n = 7
    MethodBody(320, Assign(321, "n", Num(322, 7))),
    \* 12: a method body that is an if: if n: 3 else: (n = 1)
    MethodBody(330, IfElse(331, Var(332, <<"n">>), Num(333, 3), Compound(334, <<Assign(335, "n", Num(336, 1))>>))),
    \* 13: a method body: y = 7
    MethodBody(340, Compound(341, <<Assign(342, "y", Num(343, 7))>>)),
    \* 14: a method body: 1 / 0
    MethodBody(350, Compound(351, <<Bin("Div", 352, Num(353, 1), Num(354, 0))>>)),
    \* 15: a method body: 1 + "a"
    MethodBody(360, Compound(361, <<Bin("Add", 362, Num(363, 1), Str(364, <<"a">>))>>)),
    \* 16: 1 / 0
    Bin("Div", 370, Num(371, 1), Num(372, 0)),
    \* 17: (n = 1) < (n = 2)
    Cmp(380, "Less", Assign(381, "n", Num(382, 1)), Assign(383, "n", Num(384, 2))),
    \* 18: (n = 5) - (n = 3)
    Bin("Sub", 390, Assign(391, "n", Num(392, 5)), Assign(393, "n", Num(394, 3))),
    \* 19: x.side(1) + x.side(2)
    Bin("Add", 400, MethodCall(401, Var(402, <<"x">>), "side", <<Num(403, 1)>>), MethodCall(404, Var(405, <<"x">>), "side", <<Num(406, 2)>>)),
    \* 20: True or (print "R")
    Bin("Or", 410, Bool(411, TRUE), MkPrint(412, <<Str(413, <<"R">>)>>)),
    \* 21: n or (print "R")
    Bin("Or", 420, Var(421, <<"n">>), MkPrint(422, <<Str(423, <<"R">>)>>)),
    \* 22: None or "s"
    Bin("Or", 430, NoneLit(431), Str(432, <<"s">>)),
    \* 23: 0 and (print "R")
    Bin("And", 440, Num(441, 0), MkPrint(442, <<Str(443, <<"R">>)>>)),
    \* 24: x and True
    Bin("And", 450, Var(451, <<"x">>), Bool(452, TRUE)),
    \* 25: True and (print "R")
    Bin("And", 460, Bool(461, TRUE), MkPrint(462, <<Str(463, <<"R">>)>>)),
    \* 26: print 12, None, "ab", True
    MkPrint(470, <<Num(471, 12), NoneLit(472), Str(473, <<"a", "b">>), Bool(474, TRUE)>>),
    \* 27: print
    MkPrint(480, <<>>),
    \* 28: print x.side(4), x, x.side(-7)
    MkPrint(490, <<MethodCall(491, Var(492, <<"x">>), "side", <<Num(493, 4)>>), Var(494, <<"x">>),
                   MethodCall(495, Var(496, <<"x">>), "side", <<Num(497, -7)>>)>>),
    \* 29: str(x)
    Stringify(500, Var(501, <<"x">>)),
    \* 30: str(None)
    Stringify(510, NoneLit(511)),
    \* 31: x + 4
    Bin("Add", 520, Var(521, <<"x">>), Num(522, 4)),
    \* 32: class Box
    ClassDef(530, "Box"),
    \* 33: 6 * 7 / 7
    Bin("Div", 540, Bin("Mult", 541, Num(542, 6), Num(543, 7)), Num(544, 7)),
    \* 34: not n
    Not(550, Var(551, <<"n">>)),
    \* 35: n.v = "ab"
    FieldAssign(560, Var(561, <<"n">>), "v", Str(562, <<"a", "b">>)),
    \* 36: x.get() == 3
    Cmp(570, "Equal", MethodCall(571, Var(572, <<"x">>), "get", <<>>), Num(573, 3)),
    \* 37: print str(-12)
    MkPrint(700, <<Stringify(701, Num(702, -12))>>),
    \* 38: print str(None)
    MkPrint(710, <<Stringify(711, NoneLit(712))>>),
    \* 39: print str(True)
    MkPrint(720, <<Stringify(721, Bool(722, TRUE))>>),
    \* 40: print str(x)
    MkPrint(730, <<Stringify(731, Var(732, <<"x">>))>>),
    \* 41: print str(x.make())
    MkPrint(740, <<Stringify(741, MethodCall(742, Var(743, <<"x">>), "make", <<>>))>>),
    \* 42: print str(x.side(4))
    MkPrint(750, <<Stringify(751, MethodCall(752, Var(753, <<"x">>), "side", <<Num(754, 4)>>))>>),
    \* 43: print str(str("ab"))
    MkPrint(760, <<Stringify(761, Stringify(762, Str(763, <<"a", "b">>)))>>),
    \* 44: print str(Box)
    MkPrint(770, <<Stringify(771, Var(772, <<"Box">>))>>),
    \* 45: 3 + 4
    Bin("Add", 800, Num(801, 3), Num(802, 4)),
    \* 46: INT_MAX + 1
    Bin("Add", 810, Num(811, IntMax), Num(812, 1)),
    \* 47: "ab" + "c"
    Bin("Add", 820, Str(821, <<"a", "b">>), Str(822, <<"c">>)),
    \* 48: x + "s"
    Bin("Add", 830, Var(831, <<"x">>), Str(832, <<"s">>)),
    \* 49: x.make() + 1
    Bin("Add", 840, MethodCall(841, Var(842, <<"x">>), "make", <<>>), Num(843, 1)),
    \* 50: None + None
    Bin("Add", 850, NoneLit(851), NoneLit(852)),
    \* 51: True + True
    Bin("Add", 860, Bool(861, TRUE), Bool(862, TRUE)),
    \* 52: "a" + 1
    Bin("Add", 870, Str(871, <<"a">>), Num(872, 1)),
    \* 53: Box + 1
    Bin("Add", 880, Var(881, <<"Box">>), Num(882, 1)),
    \* 54: 1 + x
    Bin("Add", 890, Num(891, 1), Var(892, <<"x">>))
>>

\* The addresses of the class instances: the NewInstance nodes.
InstIds == {193, 202}

\* n * m / m
DivMult(n, m) == Bin("Div", 600, Bin("Mult", 601, Num(602, n), Num(603, m)), Num(604, m))

\* The operands of n * m / m: the ends of the int range, the numbers around
\* zero and around the square root of the range.
ArithVals == {IntMin, IntMin + 1, -(2 ^ (IntBits \div 2)), -3, -2, -1, 0, 1, 2, 3, 2 ^ (IntBits \div 2), IntMax - 1, IntMax}

(***************************************************************************)
(* The embedder: it executes root statements one after another against one *)
(* global closure and one context.                                         *)
(***************************************************************************)
Builds == [ord : {"LR", "RL"}, ovf : {"wrap", "trap"}]

Machine == [clo |-> closure, flds |-> fields, out |-> out, na |-> nalloc, ord |-> build.ord, ovf |-> build.ovf, log |-> <<>>]

Init ==
    /\ closure = EmptyClosure
    /\ fields = [a \in InstIds |-> EmptyClosure]
    /\ out = <<>>
    /\ nalloc = 0
    /\ build \in Builds
    /\ runs = 0
    /\ arg = [n |-> 0, m |-> 1]
    /\ last = [prog |-> 0, oc |-> "", val |-> NoneH, msg |-> "", log |-> <<>>, out0 |-> <<>>]

\* The state after the evaluation r of the root statement number i.
Finish(i, r) ==
    /\ closure' = r.m.clo
    /\ fields' = r.m.flds
    /\ out' = r.m.out
    /\ nalloc' = r.m.na
    /\ runs' = runs + 1
    /\ last' = [prog |-> i, oc |-> r.oc, val |-> r.val, msg |-> r.msg, log |-> r.m.log, out0 |-> out]
    /\ UNCHANGED <<build, arg>>

\* program->Execute(closure, context) by the embedder.
Execute(i) ==
    /\ runs < MaxRuns
    /\ last.oc # "abort"
    /\ Finish(i, Exec(Programs[i], Machine))

\* The statements of the general runs.
CorePrograms == 1..36

Next == \E i \in CorePrograms : Execute(i)

Spec == Init /\ [][Next]_vars

(***************************************************************************)
(* The embedder running the statements about str: x = Box(3), class Box    *)
(* and the statements print str(e).                                        *)
(***************************************************************************)
StringifyPrograms == {1, 32} \cup (37..44)

NextStringify == \E i \in StringifyPrograms : Execute(i)

SpecStringify == Init /\ [][NextStringify]_vars

(***************************************************************************)
(* The embedder running the statements about +: x = Box(3), class Box and  *)
(* the additions.                                                          *)
(***************************************************************************)
AddPrograms == {1, 15, 31, 32} \cup (45..54)

NextAdd == \E i \in AddPrograms : Execute(i)

SpecAdd == Init /\ [][NextAdd]_vars

(***************************************************************************)
(* The arithmetic alone: the statement n * m / m for machine integers n    *)
(* and m, m not zero.                                                      *)
(***************************************************************************)
InitArith ==
    /\ closure = EmptyClosure
    /\ fields = [a \in InstIds |-> EmptyClosure]
    /\ out = <<>>
    /\ nalloc = 0
    /\ build \in Builds
    /\ runs = 0
    /\ arg \in [n : ArithVals, m : ArithVals \ {0}]
    /\ last = [prog |-> 0, oc |-> "", val |-> NoneH, msg |-> "", log |-> <<>>, out0 |-> <<>>]

ExecuteDivMult ==
    /\ runs = 0
    /\ Finish(-1, Exec(DivMult(arg.n, arg.m), Machine))

NextArith == ExecuteDivMult

SpecArith == InitArith /\ [][NextArith]_vars

(***************************************************************************)
(* Reading the history of a run.                                           *)
(***************************************************************************)
\* The nodes a node holds (the unique_ptr<Statement> members of its class).
Kids(node) ==
    CASE node.t = "Assignment" -> <<node.rv>>
      [] node.t = "FieldAssignment" -> <<node.object, node.rv>>
      [] node.t \in {"Print", "Compound", "NewInstance"} -> node.args
      [] node.t = "MethodCall" -> <<node.object>> \o node.args
      [] node.t \in {"Stringify", "Not"} -> <<node.argument>>
      [] node.t \in BinaryKinds -> <<node.lhs, node.rhs>>
      [] node.t = "Return" -> <<node.statement>>
      [] node.t = "IfElse" -> IF node.else_body.t = "nil" THEN <<node.condition, node.if_body>> ELSE <<node.condition, node.if_body, node.else_body>>
      [] node.t = "MethodBody" -> <<node.body>>
      [] OTHER -> <<>>

RECURSIVE Flatten(_)
\* The nodes of a sequence of trees.
Flatten(nodes) ==
    IF Len(nodes) = 0 THEN <<>>
    ELSE <<nodes[1]>> \o Flatten(Kids(nodes[1])) \o Flatten(Tail(nodes))

NodeTable == Flatten(Programs \o <<InitBody, GetBody, SideBody, DeepBody, OuterBody, StrBody, AddBody, MakeBody, DivMult(0, 1)>>)

NodeOf(id) == NodeTable[CHOOSE i \in 1..Len(NodeTable) : NodeTable[i].id = id]

RECURSIVE DepthsFrom(_, _, _, _)
\* For every event of the history, the number of Execute calls that are
\* entered and not yet left before it.
DepthsFrom(log, i, d, acc) ==
    IF i > Len(log) THEN acc
    ELSE DepthsFrom(log, i + 1,
                    IF log[i].ev = "exec" THEN d + 1 ELSE IF log[i].ev = "done" THEN d - 1 ELSE d,
                    Append(acc, d))

Depths(log) == DepthsFrom(log, 1, 0, <<>>)

\* The "done" event of the Execute call entered at event i.
EndOf(log, D, i) == CHOOSE j \in (i + 1)..Len(log) :
    /\ log[j].ev = "done" /\ D[j] = D[i] + 1
    /\ \A k \in (i + 1)..(j - 1) : ~(log[k].ev = "done" /\ D[k] = D[i] + 1)

\* The Execute calls of MethodBody nodes that event i lies in.
BodiesAround(log, D, i) == {e \in 1..(i - 1) : log[e].ev = "exec" /\ log[e].t = "MethodBody" /\ EndOf(log, D, e) > i}

Max(S) == CHOOSE e \in S : \A f \in S : f <= e

RECURSIVE Ascending(_)
\* The numbers of a finite set, in order.
Ascending(S) ==
    IF S = {} THEN <<>>
    ELSE <<CHOOSE e \in S : \A f \in S : e <= f>> \o Ascending(S \ {CHOOSE e \in S : \A f \in S : e <= f})

RECURSIVE Written(_, _)
\* The characters the "out" events of the history wrote, from event i on.
Written(log, i) ==
    IF i > Len(log) THEN <<>>
    ELSE IF log[i].ev = "out" THEN log[i].s \o Written(log, i + 1)
    ELSE Written(log, i + 1)

L == last.log

(***************************************************************************)
(* C1.  Every execution of a NewInstance node yields a fresh instance: no  *)
(* two executions of NewInstance in a run return handles to the same       *)
(* instance.                                                               *)
(***************************************************************************)
C1_FreshInstance ==
    \A i, j \in 1..Len(L) :
        (i < j /\ L[i].ev = "done" /\ L[i].t = "NewInstance" /\ L[i].oc = "ok"
               /\ L[j].ev = "done" /\ L[j].t = "NewInstance" /\ L[j].oc = "ok")
        => L[i].val.a # L[j].val.a

(***************************************************************************)
(* C2.  A VariableValue fails with a runtime failure when its name is not  *)
(* in the closure, and when the value at one of its hops is not a class    *)
(* instance.                                                               *)
(***************************************************************************)
C2_HopOnNonInstanceFails ==
    /\ \A k \in 1..Len(L) :
        (L[k].ev = "hop" /\ L[k].val.k # "inst")
        => \E j \in (k + 1)..Len(L) :
              /\ L[j].ev = "done" /\ L[j].id = L[k].id /\ L[j].oc = "rte"
              /\ \A h \in (k + 1)..(j - 1) : L[h].ev = "hop"
    /\ (last.prog > 0 /\ Programs[last.prog].t = "VariableValue" /\ Find(closure, Programs[last.prog].var).k = "absent")
        => last.oc = "rte"

(***************************************************************************)
(* C3.  A Return executed anywhere below a MethodBody ends that body at    *)
(* once: after it nothing more is executed or written in the body, every   *)
(* Execute call between the Return and the nearest enclosing MethodBody is *)
(* left by the same transfer, and that MethodBody returns normally with    *)
(* exactly the value of the Return.                                        *)
(***************************************************************************)
C3_ReturnEndsBody ==
    \A i \in 1..Len(L) :
        (L[i].ev = "done" /\ L[i].t = "Return" /\ L[i].oc = "ret" /\ BodiesAround(L, Depths(L), i) # {})
        => LET j == EndOf(L, Depths(L), Max(BodiesAround(L, Depths(L), i)))
           IN  /\ \A k \in (i + 1)..(j - 1) : L[k].ev = "done" /\ L[k].oc = "ret" /\ L[k].val = L[i].val
               /\ L[j].oc = "ok"
               /\ L[j].val = L[i].val

\* x.outer() has run: deep() returned 1 from inside an if inside a compound,
\* outer went on with print y and returned 2; "b", "c", "z" were not printed.
C3_Witness ==
    /\ last.prog = 9 /\ last.oc = "ok" /\ last.val.k = "num" /\ last.val.n = 2
    /\ out = last.out0 \o <<"a", "\n", "1", "\n">>

(***************************************************************************)
(* C4.  A MethodBody whose body completes without executing a Return       *)
(* yields the empty handle, whatever the body is.                          *)
(***************************************************************************)
C4_NoReturnYieldsNone ==
    \A i \in 1..Len(L) :
        (L[i].ev = "exec" /\ L[i].t = "MethodBody")
        => LET j == EndOf(L, Depths(L), i)
           IN  (L[j].oc = "ok" /\ \A k \in (i + 1)..(j - 1) : ~(L[k].ev = "done" /\ L[k].t = "Return" /\ L[k].oc = "ret"))
               => L[j].val.k = "none"

(***************************************************************************)
(* C5.  A failure of the body other than a Return leaves the MethodBody    *)
(* as the same failure with the same message.                              *)
(***************************************************************************)
C5_FailurePropagatesUntouched ==
    \A j \in 2..Len(L) :
        (L[j].ev = "done" /\ L[j].t = "MethodBody" /\ L[j - 1].ev = "done" /\ L[j - 1].oc \in {"rte", "oor"})
        => (L[j].oc = L[j - 1].oc /\ L[j].msg = L[j - 1].msg)

(***************************************************************************)
(* C6.  Every binary node evaluates its left operand first: the first      *)
(* thing Execute of an Add, Sub, Mult, Div, Comparison, Or or And does is  *)
(* to execute its lhs.                                                     *)
(***************************************************************************)
C6_LeftBeforeRight ==
    \A i \in 1..(Len(L) - 1) :
        (L[i].ev = "exec" /\ L[i].t \in BinaryKinds)
        => (L[i + 1].ev = "exec" /\ L[i + 1].id = NodeOf(L[i].id).lhs.id)

(***************************************************************************)
(* C7.  Or and And short-circuit.  In a completed Or(a, b) with a truthy   *)
(* and in a completed And(a, b) with a falsy, b is not executed; otherwise *)
(* b is executed exactly once, after a.  The result is a Bool with the     *)
(* value of the connective, at an address no handle had before.            *)
(***************************************************************************)
C7_ShortCircuit ==
    \A i \in 1..Len(L) :
        (L[i].ev = "exec" /\ L[i].t \in {"Or", "And"} /\ L[EndOf(L, Depths(L), i)].oc = "ok")
        => LET D == Depths(L)
               node == NodeOf(L[i].id)
               j == EndOf(L, D, i)
               ae == EndOf(L, D, i + 1)
               skip == IF L[i].t = "Or" THEN IsTrue(L[ae].val) ELSE ~IsTrue(L[ae].val)
               bs == {k \in (i + 1)..(j - 1) : L[k].ev = "exec" /\ D[k] = D[i] + 1 /\ L[k].id = node.rhs.id}
           IN  /\ L[i + 1].ev = "exec" /\ L[i + 1].id = node.lhs.id
               /\ skip => (bs = {} /\ j = ae + 1 /\ L[j].val.n = (IF L[i].t = "Or" THEN 1 ELSE 0))
               /\ ~skip => /\ bs = {ae + 1}
                           /\ EndOf(L, D, ae + 1) = j - 1
                           /\ L[j].val.n = (IF IsTrue(L[j - 1].val) THEN 1 ELSE 0)
               /\ L[j].val.k = "bool"
               /\ L[j].val.a < 0
               /\ \A k \in 1..(j - 1) : L[k].val.a # L[j].val.a

\* True or (print "R") has run: the result is True and nothing was printed.
C7_Witness ==
    /\ last.prog = 20 /\ last.oc = "ok" /\ last.val.k = "bool" /\ last.val.n = 1
    /\ out = last.out0
    /\ \A k \in 1..Len(L) : L[k].id # 412

(***************************************************************************)
(* C8.  Whatever leaves Execute of the root statement by an exception is a *)
(* runtime failure (std::runtime_error).                                   *)
(***************************************************************************)
C8_OnlyRuntimeFailures == last.oc \in {"", "ok", "rte"}

(***************************************************************************)
(* C9.  n * m / m is n.  As claimed: for every machine integer n and every *)
(* machine integer m other than 0, Div(Mult(n, m), m) returns the Number   *)
(* n (in a run that a trap of the build has not killed).                   *)
(***************************************************************************)
C9_DivMultIsIdentity ==
    (runs = 1 /\ last.oc # "abort") => (last.oc = "ok" /\ last.val.k = "num" /\ last.val.n = arg.n)

(***************************************************************************)
(* C9, as amended.  For every machine integer n and every machine integer  *)
(* m other than 0 whose product n * m is itself a machine integer (Mult    *)
(* does not overflow), Div(Mult(n, m), m) returns the Number n.            *)
(***************************************************************************)
C9_DivMultIsIdentityInRange ==
    (runs = 1 /\ InRange(arg.n * arg.m))
        => (last.oc = "ok" /\ last.val.k = "num" /\ last.val.n = arg.n)

\* A negative n and a negative m whose product needs more than half of the
\* bits: the division truncates, the result is n.
C9_Witness ==
    /\ runs = 1 /\ arg.n = -3 /\ arg.m < -3 /\ InRange(arg.n * arg.m) /\ arg.n * arg.m > 2 ^ (IntBits \div 2)
    /\ last.oc = "ok" /\ last.val.k = "num" /\ last.val.n = -3

(***************************************************************************)
(* C10.  A completed Print(a1..an) executes each argument exactly once, in *)
(* order; what the Print node itself does is, in this order: for the first *)
(* argument execute it and write its rendering, for every later argument   *)
(* write one space, execute it and write its rendering, and at the end     *)
(* write one newline.  An empty handle is rendered as None.  So whatever   *)
(* the execution of an argument writes lies between the rendering of the   *)
(* argument before it and its own rendering.  The sink holds what the      *)
(* history wrote, and Print returns the empty handle.                      *)
(***************************************************************************)
Shown(h) == IF h.k = "none" THEN NoneText ELSE Render(h, Machine).val.s

C10_PrintFormat ==
    /\ out = last.out0 \o Written(L, 1)
    /\ \A i \in 1..Len(L) :
        (L[i].ev = "exec" /\ L[i].t = "Print" /\ L[EndOf(L, Depths(L), i)].oc = "ok")
        => LET D == Depths(L)
               node == NodeOf(L[i].id)
               n == Len(node.args)
               j == EndOf(L, D, i)
               A == Ascending({k \in (i + 1)..(j - 1) :
                        /\ D[k] = D[i] + 1
                        /\ \/ L[k].ev = "out"
                           \/ L[k].ev = "exec" /\ \E q \in 1..n : node.args[q].id = L[k].id})
           IN  /\ Len(A) = IF n = 0 THEN 1 ELSE 3 * n
               /\ \A q \in 1..n :
                    /\ L[A[3 * q - 2]].ev = "exec" /\ L[A[3 * q - 2]].id = node.args[q].id
                    /\ L[A[3 * q - 1]].ev = "out" /\ L[A[3 * q - 1]].id = node.id
                    /\ EndOf(L, D, A[3 * q - 2]) < A[3 * q - 1]
                    /\ L[EndOf(L, D, A[3 * q - 2])].oc = "ok"
                    /\ L[A[3 * q - 1]].s = Shown(L[EndOf(L, D, A[3 * q - 2])].val)
                    /\ q > 1 => (L[A[3 * q - 3]].ev = "out" /\ L[A[3 * q - 3]].id = node.id /\ L[A[3 * q - 3]].s = <<" ">>)
               /\ A[Len(A)] = j - 1
               /\ L[j - 1].ev = "out" /\ L[j - 1].id = node.id /\ L[j - 1].s = <<"\n">>
               /\ L[j].val.k = "none"

\* print x.side(4), x, x.side(-7) has run: the "!" lines that the calls of
\* side print lie before the renderings of their results.
C10_Witness ==
    /\ last.prog = 28 /\ last.oc = "ok" /\ last.val.k = "none"
    /\ out = last.out0 \o <<"!", "\n", "4", " ", "B", "x", " ", "!", "\n", "-", "7", "\n">>

(***************************************************************************)
(* C11.  print str(e) writes what print e writes.  Whenever the embedder   *)
(* executes a statement Print(Stringify(e)) in a state from which Print(e) *)
(* succeeds, it succeeds too and leaves in the sink exactly the characters *)
(* Print(e) leaves there from that same state.  And in every run, a        *)
(* Stringify that returns returns a String at an address no handle had     *)
(* before, with the text None when its argument gave the empty handle.     *)
(***************************************************************************)
StrProgs == {i \in 1..Len(Programs) : Programs[i].t = "Print" /\ Len(Programs[i].args) = 1 /\ Programs[i].args[1].t = "Stringify"}

\* Print(e) for the statement Print(Stringify(e)).
Direct(p) == MkPrint(p.id, <<p.args[1].argument>>)

StringifyIsFresh ==
    \A i \in 1..Len(L) :
        (L[i].ev = "exec" /\ L[i].t = "Stringify" /\ L[EndOf(L, Depths(L), i)].oc = "ok")
        => LET D == Depths(L)
               j == EndOf(L, D, i)
               ae == EndOf(L, D, i + 1)
           IN  /\ L[j].val.k = "str"
               /\ L[j].val.a < 0
               /\ \A k \in 1..(j - 1) : L[k].val.a # L[j].val.a
               /\ L[ae].val.k = "none" => L[j].val.s = NoneText

\* C11: every step that executes Print(Stringify(e)) where Print(e) would
\* succeed leaves the sink Print(e) would leave, and every Stringify of the
\* run returned a new String (None for the empty handle).
C11_PrintOfStringify ==
    [][/\ StringifyIsFresh'
       /\ (last'.prog \in StrProgs /\ Exec(Direct(Programs[last'.prog]), Machine).oc = "ok")
            => /\ last'.oc = "ok"
               /\ out' = Exec(Direct(Programs[last'.prog]), Machine).m.out]_vars

\* print str(x.side(4)) has run for a Box x: the method wrote "!" and its
\* newline while str evaluated its argument, then the Print wrote 4.
C11_Witness ==
    /\ last.prog = 42 /\ last.oc = "ok"
    /\ out = last.out0 \o <<"!", "\n", "4", "\n">>
    /\ \E k \in 1..Len(L) : L[k].ev = "done" /\ L[k].t = "Stringify" /\ L[k].val.s = <<"4">>

(***************************************************************************)
(* C12.  What Add does once both operands have been evaluated.  The        *)
(* operands of the Add entered at position i of the history, when both     *)
(* returned: l its lhs value, r its rhs value, be the position where the   *)
(* rhs returned, j the position where the Add is left.                     *)
(***************************************************************************)
AddsEvaluated ==
    {i \in 1..Len(L) :
        /\ L[i].ev = "exec" /\ L[i].t = "Add"
        /\ L[EndOf(L, Depths(L), i + 1)].oc = "ok"
        /\ L[EndOf(L, Depths(L), i + 1) + 1].ev = "exec"
        /\ L[EndOf(L, Depths(L), i + 1) + 1].id = NodeOf(L[i].id).rhs.id
        /\ L[EndOf(L, Depths(L), EndOf(L, Depths(L), i + 1) + 1)].oc = "ok"}

\* The Add at i of the history treats its operands as claimed; sums tells
\* for which Numbers the sum is claimed.
AddDispatch(i, sums) ==
    LET D == Depths(L)
        j == EndOf(L, D, i)
        ae == EndOf(L, D, i + 1)
        be == EndOf(L, D, ae + 1)
        l == L[ae].val
        r == L[be].val
        new == L[j].oc = "ok" /\ L[j].val.a < 0 /\ \A k \in 1..(j - 1) : L[k].val.a # L[j].val.a
    IN  IF l.k = "inst" /\ HasMethod(l.c, "__add__", 1)
        THEN /\ L[be + 1].ev = "exec" /\ L[be + 1].id = GetMethod(l.c, "__add__", 1).body.id
             /\ EndOf(L, D, be + 1) = j - 1
             /\ \E k \in (be + 1)..j : L[k].ev = "done" /\ L[k].t = "VariableValue"
             /\ \A k \in (be + 1)..j :
                    (/\ L[k].ev = "done" /\ L[k].t = "VariableValue"
                     /\ NodeOf(L[k].id).var = GetMethod(l.c, "__add__", 1).params[1]
                     /\ NodeOf(L[k].id).dotted = <<>>
                     /\ Max(BodiesAround(L, D, k)) = be + 1) => (L[k].oc = "ok" /\ L[k].val = r)
             /\ L[j].oc = L[j - 1].oc /\ L[j].val = L[j - 1].val /\ L[j].msg = L[j - 1].msg
        ELSE IF l.k = "num" /\ r.k = "num"
        THEN sums[l.n + r.n] => (new /\ j = be + 1 /\ L[j].val.k = "num" /\ L[j].val.n = l.n + r.n)
        ELSE IF l.k = "str" /\ r.k = "str"
        THEN new /\ j = be + 1 /\ L[j].val.k = "str" /\ L[j].val.s = l.s \o r.s
        ELSE j = be + 1 /\ L[j].oc = "rte"

(***************************************************************************)
(* C12, as claimed.  If lhs is an instance whose class has __add__ with    *)
(* one parameter, Add returns what the call of __add__ on lhs with rhs     *)
(* returns; otherwise two Numbers give a new Number with their sum, two    *)
(* Strings a new String with their concatenation, and everything else a    *)
(* runtime failure.                                                        *)
(***************************************************************************)
C12_AddDispatch == \A i \in AddsEvaluated : AddDispatch(i, [z \in (2 * IntMin)..(2 * IntMax) |-> TRUE])

(***************************************************************************)
(* C12, as amended.  The same, where two Numbers give a new Number with    *)
(* their sum when the sum is itself a machine integer (Add does not        *)
(* overflow).                                                              *)
(***************************************************************************)
C12_AddDispatchInRange == \A i \in AddsEvaluated : AddDispatch(i, [z \in (2 * IntMin)..(2 * IntMax) |-> InRange(z)])

\* x + 4 has run for a Box x made by Box(3): the call of __add__ returned
\* the new Number 7, which the Add inside __add__ made of self.v and p.
C12_Witness ==
    /\ last.prog = 31 /\ last.oc = "ok" /\ last.val.k = "num" /\ last.val.n = 7 /\ last.val.a < 0
    /\ Cardinality(AddsEvaluated) = 2

====
